---- MODULE Spec2Model ----
(***************************************************************************)
(* Model of SimonNorton_MarketBasket.py: the external-memory pipeline      *)
(*   create_subfiles -> proc_baskets / count_product_tuples -> proc_subdata*)
(* as driven by the __main__ block.                                        *)
(*                                                                         *)
(* Representation.                                                         *)
(*   - An input line "basket_id,product_id\n" is the tuple <<b, p>>.       *)
(*     readline() returning '' (end of file) is the empty tuple <<>>.      *)
(*   - Products are numbered by their rank in the lexicographic order of   *)
(*     their text, so that the Python string comparison e1 < e2 is the     *)
(*     integer comparison of the ranks. Basket ids likewise.               *)
(*   - A csv file is the sequence of its rows; a zero-byte file is <<>>.   *)
(*     A pair-count row "p1,p2,n" is <<p1, p2, n>>.                        *)
(*   - A pandas DataFrame is the sequence of its rows, in row order.       *)
(*     A merged frame has rows <<p1, p2, num_baskets_x, num_baskets_y>>.   *)
(***************************************************************************)
EXTENDS Integers, Sequences, FiniteSets, TLC

\* ------------------------------------------------------------------ bounds
MaxLines == 4
MaxLimit == 2
MaxFiles == 3
MaxRows == 4
MaxCount == 2

\* the basket ids and the products (A, B, C) of the inputs
Baskets == {1, 2}
Products == {1, 2, 3}
Lines == Baskets \X Products
Pairs == {pr \in Products \X Products : pr[1] < pr[2]}

\* readline() at end of file returns the empty string
EOF == <<>>

\* the header line "Product_1,Product_2,num_baskets" of the report
Header == <<0, 0, 0>>

\* a missing value in a merged frame (the outer side of a left merge)
NaN == -1

VARIABLES
    gzip_file,        \* the lines of the input file
    line_limit,       \* --line_limit
    pc,               \* position of the program
    run,              \* number of the current execution of __main__
    rd,               \* number of lines readline() has returned so far
    current_line,     \* create_subfiles: current_line
    writ_basket,      \* create_subfiles: writ_basket
    line_counter,     \* create_subfiles: line_counter
    subfile_counter,  \* create_subfiles: subfile_counter
    create_ret,       \* value returned by create_subfiles: "none", "True", "False"
    subdata,          \* chunk files subdata_NNN.csv, by counter NNN
    todo,             \* __main__: chunk files the for loop has still to visit
    subdatafile,      \* __main__: subdatafile
    basket_out,       \* __main__: basket_out
    tuplecount,       \* files subdata_NNN_tuplecount.csv, by counter NNN
    proc_pos,         \* proc_subdata: position of proc_file in subdata_list
    next_idx,         \* proc_subdata: next_idx
    proc_df,          \* proc_subdata: proc_df
    report_isfile,    \* os.path.isfile(output_filename)
    report,           \* lines of the report file
    orig_tuplecount,  \* history: the pair-count files as proc_subdata found them
    compared,         \* history: the comp_df frames read for the current primary
    report_run1       \* history: the report at the end of the first execution

chunker_vars == <<rd, current_line, writ_basket, line_counter, subfile_counter>>
main_vars == <<todo, subdatafile, basket_out>>
merge_vars == <<proc_pos, next_idx, proc_df, compared>>
vars == <<gzip_file, line_limit, pc, run, rd, current_line, writ_basket,
          line_counter, subfile_counter, create_ret, subdata, todo, subdatafile,
          basket_out, tuplecount, proc_pos, next_idx, proc_df, report_isfile,
          report, orig_tuplecount, compared, report_run1>>

\* ----------------------------------------------------------------- helpers
RECURSIVE SeqsUpTo(_, _)
SeqsUpTo(S, n) ==
    IF n = 0 THEN {<<>>}
    ELSE LET shorter == SeqsUpTo(S, n - 1)
         IN  shorter \cup {Append(s, x) : s \in {t \in shorter : Len(t) = n - 1}, x \in S}

Range(s) == {s[i] : i \in DOMAIN s}

RECURSIVE SumSeq(_)
SumSeq(s) == IF s = <<>> THEN 0 ELSE Head(s) + SumSeq(Tail(s))

RECURSIVE Flatten(_)
Flatten(ss) == IF ss = <<>> THEN <<>> ELSE Head(ss) \o Flatten(Tail(ss))

RECURSIVE SetToSortedSeq(_)
SetToSortedSeq(S) ==
    IF S = {} THEN <<>>
    ELSE LET m == CHOOSE x \in S : \A y \in S : x <= y
         IN  <<m>> \o SetToSortedSeq(S \ {m})

\* Python's order on tuples of two items
TupleLess(a, b) == a[1] < b[1] \/ (a[1] = b[1] /\ a[2] < b[2])

\* gzip_f.readline(): the next line, or '' at the end of the file
ReadLine(file, n) == IF n < Len(file) THEN file[n + 1] ELSE EOF

\* 'subdata_' + str(subfile_counter).rjust(3,'0') + '.csv', opened in 'at' mode:
\* the file is created empty when it does not exist
OpenAppend(files, k) == IF k \in DOMAIN files THEN files ELSE (k :> <<>>) @@ files

\* a write that replaces the content of the file
WriteLineOverwrite(files, k, line) == [files EXCEPT ![k] = <<line>>]

\* out_f.write(line)
WriteLine(files, k, line) == [files EXCEPT ![k] = Append(@, line)]

\* --------------------------------------------------------- create_subfiles
\* The state in which __main__ starts: no chunk file, no pair-count file, no report.
Init ==
    /\ gzip_file \in SeqsUpTo(Lines, MaxLines)
    /\ line_limit \in 0..MaxLimit
    /\ pc = "create_subfiles"
    /\ run = 1
    /\ rd = 0
    /\ current_line = EOF
    /\ writ_basket = EOF
    /\ line_counter = 0
    /\ subfile_counter = 1
    /\ create_ret = "none"
    /\ subdata = <<>>
    /\ todo = {}
    /\ subdatafile = 0
    /\ basket_out = <<>>
    /\ tuplecount = <<>>
    /\ proc_pos = 1
    /\ next_idx = 1
    /\ proc_df = <<>>
    /\ report_isfile = FALSE
    /\ report = <<>>
    /\ orig_tuplecount = <<>>
    /\ compared = <<>>
    /\ report_run1 = <<>>

\* lines 76-83: the old subdata*.csv files (chunk and pair-count files alike) are
\* removed, the input is opened and its first line read
CS_Begin ==
    /\ pc = "create_subfiles"
    /\ subfile_counter' = 1
    /\ subdata' = <<>>
    /\ tuplecount' = <<>>
    /\ rd' = IF Len(gzip_file) > 0 THEN 1 ELSE 0
    /\ current_line' = ReadLine(gzip_file, 0)
    /\ pc' = "cs_outer"
    /\ UNCHANGED <<gzip_file, line_limit, run, writ_basket, line_counter, create_ret,
                   main_vars, merge_vars, report_isfile, report, orig_tuplecount,
                   report_run1>>

\* the chunk file is opened before current_line is tested
CS_OuterOpensFirst ==
    /\ pc = "cs_outer"
    /\ subdata' = OpenAppend(subdata, subfile_counter)
    /\ IF current_line # EOF
       THEN /\ line_counter' = 0
            /\ pc' = "cs_inner"
            /\ UNCHANGED create_ret
       ELSE /\ create_ret' = "True"
            /\ pc' = "main_glob"
            /\ UNCHANGED line_counter
    /\ UNCHANGED <<gzip_file, line_limit, run, rd, current_line, writ_basket,
                   subfile_counter, main_vars, tuplecount, merge_vars, report_isfile,
                   report, orig_tuplecount, report_run1>>

\* lines 85-88: one pass of "while current_line": the next chunk file is opened;
\* line 115: at the end of the input the function returns True
CS_Outer ==
    /\ pc = "cs_outer"
    /\ IF current_line # EOF
       THEN /\ subdata' = OpenAppend(subdata, subfile_counter)
            /\ line_counter' = 0
            /\ pc' = "cs_inner"
            /\ UNCHANGED create_ret
       ELSE /\ create_ret' = "True"
            /\ pc' = "main_glob"
            /\ UNCHANGED <<subdata, line_counter>>
    /\ UNCHANGED <<gzip_file, line_limit, run, rd, current_line, writ_basket,
                   subfile_counter, main_vars, tuplecount, merge_vars, report_isfile,
                   report, orig_tuplecount, report_run1>>

\* lines 101-104: the counter after one line was written and the next one read
NextLineCounter(counter, limit, cur, writ) ==
    IF counter = limit /\ cur = writ THEN counter ELSE counter + 1

\* lines 90-104: one pass of "while line_counter <= line_limit"; the loop is left
\* by the break at the end of the input or when the counter passes the limit
CS_Inner ==
    /\ pc = "cs_inner"
    /\ line_counter <= line_limit
    /\ LET nxt == ReadLine(gzip_file, rd)
           cnt == NextLineCounter(line_counter, line_limit, nxt, current_line)
       IN  /\ subdata' = WriteLine(subdata, subfile_counter, current_line)
           /\ writ_basket' = current_line
           /\ current_line' = nxt
           /\ rd' = IF nxt = EOF THEN rd ELSE rd + 1
           /\ IF nxt = EOF
              THEN /\ pc' = "cs_close"
                   /\ UNCHANGED line_counter
              ELSE /\ line_counter' = cnt
                   /\ pc' = IF cnt <= line_limit THEN "cs_inner" ELSE "cs_close"
    /\ UNCHANGED <<gzip_file, line_limit, run, subfile_counter, create_ret, main_vars,
                   tuplecount, merge_vars, report_isfile, report, orig_tuplecount,
                   report_run1>>

\* lines 107-108
CS_Close ==
    /\ pc = "cs_close"
    /\ subfile_counter' = subfile_counter + 1
    /\ pc' = "cs_outer"
    /\ UNCHANGED <<gzip_file, line_limit, run, rd, current_line, writ_basket,
                   line_counter, create_ret, subdata, main_vars, tuplecount,
                   merge_vars, report_isfile, report, orig_tuplecount, report_run1>>

\* lines 82, 112-114: gzip.open raises (after the old files were removed);
\* create_subfiles returns False. Line 257: __main__ drops the returned value.
CS_OpenError ==
    /\ pc = "create_subfiles"
    /\ subdata' = <<>>
    /\ tuplecount' = <<>>
    /\ create_ret' = "False"
    /\ pc' = "main_glob"
    /\ UNCHANGED <<gzip_file, line_limit, run, chunker_vars, main_vars, merge_vars,
                   report_isfile, report, orig_tuplecount, report_run1>>

\* lines 92-94, 112-114: the line is written and readline raises; create_subfiles
\* returns False and leaves the chunk files written so far
CS_ReadError ==
    /\ pc = "cs_inner"
    /\ line_counter <= line_limit
    /\ subdata' = WriteLine(subdata, subfile_counter, current_line)
    /\ writ_basket' = current_line
    /\ create_ret' = "False"
    /\ pc' = "main_glob"
    /\ UNCHANGED <<gzip_file, line_limit, run, rd, current_line, line_counter,
                   subfile_counter, main_vars, tuplecount, merge_vars, report_isfile,
                   report, orig_tuplecount, report_run1>>

\* ------------------------------------------------------------ proc_baskets
\* A dict is the sequence of its <<key, value>> items in iteration order.
DictKeys(d) == {d[i][1] : i \in DOMAIN d}
DictGet(d, k) == d[CHOOSE i \in DOMAIN d : d[i][1] = k][2]

\* lines 129-132: one row of the chunk; row[0] is the basket, row[1:] the product
BasketDictRow(d, row) ==
    IF row[1] \notin DictKeys(d)
    THEN Append(d, <<row[1], Tail(row)>>)
    ELSE [i \in DOMAIN d |-> IF d[i][1] = row[1] THEN <<d[i][1], d[i][2] \o Tail(row)>>
                                                 ELSE d[i]]

\* lines 128-132
RECURSIVE BasketDict(_, _)
BasketDict(rows, n) ==
    IF n = 0 THEN <<>> ELSE BasketDictRow(BasketDict(rows, n - 1), rows[n])

\* the basket contents sorted but not deduplicated: sorted(list(...)) without set()
DedupedKeepsRepeats(basket_dict) ==
    LET keys == SetToSortedSeq(DictKeys(basket_dict))
    IN  [i \in DOMAIN keys |->
            <<keys[i], SortSeq(DictGet(basket_dict, keys[i]), LAMBDA a, b : a < b)>>]

\* line 135
Deduped(basket_dict) ==
    LET keys == SetToSortedSeq(DictKeys(basket_dict))
    IN  [i \in DOMAIN keys |->
            <<keys[i], SetToSortedSeq(Range(DictGet(basket_dict, keys[i])))>>]

\* the comprehension with "e1 != e2" for "e1 < e2"
BasketTuplesBothOrders(contents) ==
    LET forE1(e1) == LET e2s == SelectSeq(contents, LAMBDA e2 : e1 # e2)
                     IN  [j \in DOMAIN e2s |-> <<e1, e2s[j]>>]
        comp == Flatten([i \in DOMAIN contents |-> forE1(contents[i])])
    IN  SortSeq(comp, TupleLess)

\* lines 142-143: the comprehension, then sorted()
BasketTuples(contents) ==
    LET forE1(e1) == LET e2s == SelectSeq(contents, LAMBDA e2 : e1 < e2)
                     IN  [j \in DOMAIN e2s |-> <<e1, e2s[j]>>]
        comp == Flatten([i \in DOMAIN contents |-> forE1(contents[i])])
    IN  SortSeq(comp, TupleLess)

\* lines 119-150
ProcBaskets(chunk) ==
    LET deduped == Deduped(BasketDict(chunk, Len(chunk)))
    IN  [i \in DOMAIN deduped |-> <<deduped[i][1], BasketTuples(deduped[i][2])>>]

\* ---------------------------------------------------- count_product_tuples
\* collections.Counter: one step of counting, keys kept in first-seen order
CounterAdd(c, x) ==
    IF x \in DictKeys(c)
    THEN [i \in DOMAIN c |-> IF c[i][1] = x THEN <<x, c[i][2] + 1>> ELSE c[i]]
    ELSE Append(c, <<x, 1>>)

RECURSIVE Counter(_, _)
Counter(xs, n) == IF n = 0 THEN <<>> ELSE CounterAdd(Counter(xs, n - 1), xs[n])

\* lines 157-175: the rows written to the pair-count file
CountProductTuples(file_of_baskets) ==
    LET chain == Flatten([i \in DOMAIN file_of_baskets |-> file_of_baskets[i][2]])
        summed_tuples == Counter(chain, Len(chain))
    IN  [i \in DOMAIN summed_tuples |->
            <<summed_tuples[i][1][1], summed_tuples[i][1][2], summed_tuples[i][2]>>]

\* ---------------------------------------------------------------- __main__
\* line 259: glob.glob('subdata*.csv') is evaluated once, before the loop
Main_Glob ==
    /\ pc = "main_glob"
    /\ todo' = DOMAIN subdata
    /\ pc' = "main_loop"
    /\ UNCHANGED <<gzip_file, line_limit, run, chunker_vars, create_ret, subdata,
                   subdatafile, basket_out, tuplecount, merge_vars, report_isfile,
                   report, orig_tuplecount, report_run1>>

\* lines 259-260: glob returns the files in no particular order
Main_ProcBaskets ==
    /\ pc = "main_loop"
    /\ \E k \in todo :
          /\ subdatafile' = k
          /\ basket_out' = ProcBaskets(subdata[k])
          /\ todo' = todo \ {k}
    /\ pc' = "main_count"
    /\ UNCHANGED <<gzip_file, line_limit, run, chunker_vars, create_ret, subdata,
                   tuplecount, merge_vars, report_isfile, report, orig_tuplecount,
                   report_run1>>

\* line 261
Main_CountProductTuples ==
    /\ pc = "main_count"
    /\ tuplecount' = (subdatafile :> CountProductTuples(basket_out)) @@ tuplecount
    /\ pc' = "main_loop"
    /\ UNCHANGED <<gzip_file, line_limit, run, chunker_vars, create_ret, subdata,
                   main_vars, merge_vars, report_isfile, report, orig_tuplecount,
                   report_run1>>

\* ------------------------------------------------------------ proc_subdata
\* lines 183-184: the sorted list of the pair-count files
SubdataList == SetToSortedSeq(DOMAIN tuplecount)

SameKey(a, b) == a[1] = b[1] /\ a[2] = b[2]

\* the rows a left row gives in pd.merge(left, right, on=['Product_1','Product_2'])
MergeRows(l, right) ==
    LET m == SelectSeq(right, LAMBDA r : SameKey(l, r))
    IN  [j \in DOMAIN m |-> <<l[1], l[2], l[3], m[j][3]>>]

\* pd.merge(left, right, on=[...]): the inner join, in the order of the left keys
InnerMerge(left, right) == Flatten([i \in DOMAIN left |-> MergeRows(left[i], right)])

\* pd.merge(left, right, on=[...], how='left'): a left row without a match is kept
\* with a missing num_baskets_y
LeftMerge(left, right) ==
    Flatten([i \in DOMAIN left |->
        IF MergeRows(left[i], right) = <<>>
        THEN << <<left[i][1], left[i][2], left[i][3], NaN>> >>
        ELSE MergeRows(left[i], right)])

\* DataFrame.sum(1) of num_baskets_x and num_baskets_y: missing values count as 0
RowSum(x, y) == (IF x = NaN THEN 0 ELSE x) + (IF y = NaN THEN 0 ELSE y)

\* the merged sum added to the prior value instead of replacing it
RowMaxAccumulates(x, y) == IF y = NaN THEN x ELSE IF x = NaN THEN y ELSE x + y

\* DataFrame.max(1) of num_baskets_x and num_baskets_y: missing values are skipped
RowMax(x, y) == IF y = NaN THEN x ELSE IF x = NaN THEN y ELSE IF x > y THEN x ELSE y

\* line 216: upd_df
AssignSum(mrg_df) ==
    [i \in DOMAIN mrg_df |->
        <<mrg_df[i][1], mrg_df[i][2], RowSum(mrg_df[i][3], mrg_df[i][4])>>]

\* lines 221 and 229: num_baskets = max of the two columns, which are dropped
AssignMax(df) ==
    [i \in DOMAIN df |-> <<df[i][1], df[i][2], RowMax(df[i][3], df[i][4])>>]

\* line 226: the boolean Series comp_df['num_baskets_y'] > 0, one entry per row
GreaterZero(df) == [i \in DOMAIN df |-> df[i][4] # NaN /\ df[i][4] > 0]

\* line 226: Series.index is the labels of all the entries of the Series,
\* whatever their values
SeriesIndex(series) == DOMAIN series

\* a drop that removes no row
DropRowsNone(df, labels) == df

\* line 227: DataFrame.drop(labels)
DropRows(df, labels) ==
    LET kept == SetToSortedSeq(DOMAIN df \ labels)
    IN  [j \in DOMAIN kept |-> df[kept[j]]]

\* a comparison that adds the shared pairs to the primary and leaves the file as
\* it was
CompareKeepsSecondary(proc, comp_file) ==
    LET mrg_df == InnerMerge(proc, comp_file)
        upd_df == AssignSum(mrg_df)
    IN  [proc |-> IF mrg_df = <<>> THEN proc ELSE AssignMax(LeftMerge(proc, upd_df)),
         comp |-> comp_file]

\* lines 206-234: the primary frame compared with the non-empty file comp;
\* proc is the new proc_df, comp the new content of the file
Compare(proc, comp_file) ==
    LET comp_df  == comp_file
        mrg_df   == InnerMerge(proc, comp_df)
        upd_df   == AssignSum(mrg_df)
        proc2    == AssignMax(LeftMerge(proc, upd_df))
        comp2    == LeftMerge(comp_df, upd_df)
        comp_drop_idx == SeriesIndex(GreaterZero(comp2))
        comp3    == AssignMax(DropRows(comp2, comp_drop_idx))
    IN  IF mrg_df = <<>>
        THEN [proc |-> proc, comp |-> comp_file]
        ELSE [proc |-> proc2, comp |-> IF upd_df # <<>> THEN comp3 ELSE comp_file]

\* to_csv that writes the header on every append
ToCsvHeaderAlways(isfile, lines, df) == lines \o <<Header>> \o df

\* lines 236-239: DataFrame.to_csv, with the header when the file is created
ToCsv(isfile, lines, df) == IF isfile THEN lines \o df ELSE <<Header>> \o df

\* line 263, lines 183-184: proc_subdata is called once the for loop is over
PS_Begin ==
    /\ pc = "main_loop"
    /\ todo = {}
    /\ proc_pos' = 1
    /\ orig_tuplecount' = tuplecount
    /\ pc' = "ps_outer"
    /\ UNCHANGED <<gzip_file, line_limit, run, chunker_vars, create_ret, subdata,
                   main_vars, tuplecount, next_idx, proc_df, compared, report_isfile,
                   report, report_run1>>

\* a file of size 0 takes a turn as primary and is appended to the report
PS_SkipEmptyAppends ==
    /\ pc = "ps_outer"
    /\ proc_pos <= Len(SubdataList)
    /\ tuplecount[SubdataList[proc_pos]] = <<>>
    /\ report' = ToCsv(report_isfile, report, <<>>)
    /\ report_isfile' = TRUE
    /\ proc_pos' = proc_pos + 1
    /\ UNCHANGED <<gzip_file, line_limit, pc, run, chunker_vars, create_ret, subdata,
                   main_vars, tuplecount, next_idx, proc_df, compared,
                   orig_tuplecount, report_run1>>

\* lines 186-190: a file of size 0 is skipped
PS_SkipEmpty ==
    /\ pc = "ps_outer"
    /\ proc_pos <= Len(SubdataList)
    /\ tuplecount[SubdataList[proc_pos]] = <<>>
    /\ proc_pos' = proc_pos + 1
    /\ UNCHANGED <<gzip_file, line_limit, pc, run, chunker_vars, create_ret, subdata,
                   main_vars, tuplecount, next_idx, proc_df, compared, report_isfile,
                   report, orig_tuplecount, report_run1>>

\* the next primary is read and compared with every file of the list, from the
\* first one on, instead of the files after it
PS_LoadCompareAll ==
    /\ pc = "ps_outer"
    /\ proc_pos <= Len(SubdataList)
    /\ tuplecount[SubdataList[proc_pos]] # <<>>
    /\ proc_df' = tuplecount[SubdataList[proc_pos]]
    /\ next_idx' = 1
    /\ compared' = <<>>
    /\ pc' = "ps_inner"
    /\ UNCHANGED <<gzip_file, line_limit, run, chunker_vars, create_ret, subdata,
                   main_vars, tuplecount, proc_pos, report_isfile, report,
                   orig_tuplecount, report_run1>>

\* lines 191-196: the next primary is read
PS_Load ==
    /\ pc = "ps_outer"
    /\ proc_pos <= Len(SubdataList)
    /\ tuplecount[SubdataList[proc_pos]] # <<>>
    /\ proc_df' = tuplecount[SubdataList[proc_pos]]
    /\ next_idx' = proc_pos + 1
    /\ compared' = <<>>
    /\ pc' = "ps_inner"
    /\ UNCHANGED <<gzip_file, line_limit, run, chunker_vars, create_ret, subdata,
                   main_vars, tuplecount, proc_pos, report_isfile, report,
                   orig_tuplecount, report_run1>>

\* lines 198-234: one pass of "for next_idx in proc_range"
PS_Compare ==
    /\ pc = "ps_inner"
    /\ next_idx <= Len(SubdataList)
    /\ LET comp_file == SubdataList[next_idx]
           res == Compare(proc_df, tuplecount[comp_file])
       IN  IF tuplecount[comp_file] = <<>>
           THEN UNCHANGED <<proc_df, tuplecount, compared>>
           ELSE /\ proc_df' = res.proc
                /\ tuplecount' = [tuplecount EXCEPT ![comp_file] = res.comp]
                /\ compared' = Append(compared, tuplecount[comp_file])
    /\ next_idx' = next_idx + 1
    /\ UNCHANGED <<gzip_file, line_limit, pc, run, chunker_vars, create_ret, subdata,
                   main_vars, proc_pos, report_isfile, report, orig_tuplecount,
                   report_run1>>

\* lines 236-239: the primary is appended to the report
PS_Append ==
    /\ pc = "ps_inner"
    /\ next_idx > Len(SubdataList)
    /\ report' = ToCsv(report_isfile, report, proc_df)
    /\ report_isfile' = TRUE
    /\ proc_pos' = proc_pos + 1
    /\ pc' = "ps_outer"
    /\ UNCHANGED <<gzip_file, line_limit, run, chunker_vars, create_ret, subdata,
                   main_vars, tuplecount, next_idx, proc_df, compared, orig_tuplecount,
                   report_run1>>

\* line 240: the list is exhausted, proc_subdata returns
PS_Return ==
    /\ pc = "ps_outer"
    /\ proc_pos > Len(SubdataList)
    /\ pc' = "main_cleanup"
    /\ UNCHANGED <<gzip_file, line_limit, run, chunker_vars, create_ret, subdata,
                   main_vars, tuplecount, merge_vars, report_isfile, report,
                   orig_tuplecount, report_run1>>

\* lines 265-266: the chunk and pair-count files are removed; the program ends
Main_Cleanup ==
    /\ pc = "main_cleanup"
    /\ subdata' = <<>>
    /\ tuplecount' = <<>>
    /\ report_run1' = IF run = 1 THEN report ELSE report_run1
    /\ pc' = "done"
    /\ UNCHANGED <<gzip_file, line_limit, run, chunker_vars, create_ret, main_vars,
                   merge_vars, report_isfile, report, orig_tuplecount>>

\* after a complete execution the program is started again on the same input with
\* the same line_limit; the files of the working directory are as the previous
\* execution left them
Main_Rerun ==
    /\ pc = "done"
    /\ create_ret = "True"
    /\ run = 1
    /\ run' = run + 1
    /\ pc' = "create_subfiles"
    /\ rd' = 0
    /\ current_line' = EOF
    /\ writ_basket' = EOF
    /\ line_counter' = 0
    /\ subfile_counter' = 1
    /\ create_ret' = "none"
    /\ todo' = {}
    /\ subdatafile' = 0
    /\ basket_out' = <<>>
    /\ proc_pos' = 1
    /\ next_idx' = 1
    /\ proc_df' = <<>>
    /\ compared' = <<>>
    /\ orig_tuplecount' = <<>>
    /\ UNCHANGED <<gzip_file, line_limit, subdata, tuplecount, report_isfile, report,
                   report_run1>>

Next ==
    \/ CS_Begin
    \/ CS_Outer
    \/ CS_Inner
    \/ CS_Close
    \/ CS_OpenError
    \/ CS_ReadError
    \/ Main_Glob
    \/ Main_ProcBaskets
    \/ Main_CountProductTuples
    \/ PS_Begin
    \/ PS_SkipEmpty
    \/ PS_Load
    \/ PS_Compare
    \/ PS_Append
    \/ PS_Return
    \/ Main_Cleanup
    \/ Main_Rerun

Spec == Init /\ [][Next]_vars

\* ------------------------------------------- proc_subdata on any list of files
\* the pairs in Python's tuple order
RECURSIVE SortedPairs(_)
SortedPairs(S) ==
    IF S = {} THEN <<>>
    ELSE LET m == CHOOSE x \in S : \A y \in S : x = y \/ TupleLess(x, y)
         IN  <<m>> \o SortedPairs(S \ {m})

\* the pair-count file with count c[pr] for the pair pr, and no row when c[pr] = 0.
\* count_product_tuples writes one row per key of its dict (lines 161-175), so no
\* key is repeated in a file; the rows are taken in the order of the keys.
FileOf(c) ==
    LET ks == SelectSeq(SortedPairs(Pairs), LAMBDA pr : c[pr] > 0)
    IN  [i \in DOMAIN ks |-> <<ks[i][1], ks[i][2], c[ks[i]]>>]

PairFiles == {f \in {FileOf(c) : c \in [Pairs -> 0..MaxCount]} : Len(f) <= MaxRows}

\* the number of rows of a list of files
TotalRows(files) == SumSeq([k \in DOMAIN files |-> Len(files[k])])

\* proc_subdata is entered with any list of pair-count files and no report
InitMerge ==
    /\ \E n \in 0..MaxFiles : tuplecount \in [1..n -> PairFiles]
    /\ TotalRows(tuplecount) <= MaxRows
    /\ orig_tuplecount = tuplecount
    /\ gzip_file = <<>>
    /\ line_limit = 0
    /\ pc = "ps_outer"
    /\ run = 1
    /\ rd = 0
    /\ current_line = EOF
    /\ writ_basket = EOF
    /\ line_counter = 0
    /\ subfile_counter = 1
    /\ create_ret = "True"
    /\ subdata = <<>>
    /\ todo = {}
    /\ subdatafile = 0
    /\ basket_out = <<>>
    /\ proc_pos = 1
    /\ next_idx = 1
    /\ proc_df = <<>>
    /\ report_isfile = FALSE
    /\ report = <<>>
    /\ compared = <<>>
    /\ report_run1 = <<>>

NextMerge ==
    \/ PS_SkipEmpty
    \/ PS_Load
    \/ PS_Compare
    \/ PS_Append
    \/ PS_Return

SpecMerge == InitMerge /\ [][NextMerge]_vars

\* ------------------------------------------------------------- properties
\* the records of one basket are contiguous in the input
Contiguous(f) ==
    \A i, j, k \in DOMAIN f : (i < j /\ j < k /\ f[i][1] = f[k][1]) => f[j][1] = f[i][1]

\* the (pair, basket) occurrences of the whole input, counted directly
DirectOccurrences(f) ==
    {t \in Baskets \X Products \X Products :
        /\ t[2] < t[3]
        /\ <<t[1], t[2]>> \in Range(f)
        /\ <<t[1], t[3]>> \in Range(f)}

DataRows(lines) == SelectSeq(lines, LAMBDA r : r # Header)

\* the sum of the num_baskets column of a file
CountSum(rows) == SumSeq([i \in DOMAIN rows |-> rows[i][3]])

\* the sum of the counts of the rows of a file with the key of pr
CountOf(rows, pr) == CountSum(SelectSeq(rows, LAMBDA r : SameKey(r, pr)))

HasKey(rows, pr) == \E i \in DOMAIN rows : SameKey(rows[i], pr)

\* the number of times a line occurs in a file
Occurrences(lines, x) == Cardinality({i \in DOMAIN lines : lines[i] = x})

\* the sum of a pair's counts over the pair-count files as proc_subdata found them
OrigTotal(pr) ==
    SumSeq([k \in DOMAIN SetToSortedSeq(DOMAIN orig_tuplecount) |->
                CountOf(orig_tuplecount[SetToSortedSeq(DOMAIN orig_tuplecount)[k]], pr)])

\* the chunk files that hold a line of basket b
ChunksOf(b) == {k \in DOMAIN subdata : \E i \in DOMAIN subdata[k] : subdata[k][i][1] = b}

\* C1: end to end, for a contiguous input and no report at the start, the sum of
\* num_baskets over the rows of the final report equals the number of
\* (pair, basket) occurrences counted directly over the whole input.
C1_CountConservation ==
    (pc = "main_cleanup" /\ run = 1 /\ create_ret = "True" /\ Contiguous(gzip_file))
        => CountSum(DataRows(report)) = Cardinality(DirectOccurrences(gzip_file))

\* C2: when proc_subdata has completed, every pair of some pair-count file has a
\* row in the report, and the row's count is the sum of the pair's counts over
\* all the pair-count files.
C2_ReportHoldsSums ==
    pc = "main_cleanup" =>
        \A pr \in Pairs :
            OrigTotal(pr) > 0 =>
                /\ HasKey(DataRows(report), pr)
                /\ \A i \in DOMAIN report :
                      (report[i] # Header /\ SameKey(report[i], pr))
                          => report[i][3] = OrigTotal(pr)

\* C3: after create_subfiles has completed on a contiguous input, no basket has
\* lines in two different chunk files.
C3_BasketInOneChunk ==
    (create_ret = "True" /\ Contiguous(gzip_file))
        => \A b \in Baskets : Cardinality(ChunksOf(b)) <= 1

\* C4: during proc_subdata each (p1,p2) appears at most once in the report, and
\* when a file is about to be promoted to primary none of its pairs is in the
\* report already.
C4_NoDuplicatePairs ==
    /\ \A i, j \in DOMAIN report :
          (i # j /\ report[i] # Header /\ report[j] # Header)
              => ~SameKey(report[i], report[j])
    /\ (pc = "ps_outer" /\ proc_pos <= Len(SubdataList))
          => \A i \in DOMAIN tuplecount[SubdataList[proc_pos]] :
                ~HasKey(DataRows(report), tuplecount[SubdataList[proc_pos]][i])

\* C4 witness: proc_subdata has completed, two primaries were appended to the
\* report and some pair occurred in two of the pair-count files.
C4_Witness ==
    /\ pc = "main_cleanup"
    /\ Cardinality({k \in DOMAIN tuplecount : tuplecount[k] # <<>>}) >= 2
    /\ Len(DataRows(report)) >= 2
    /\ \E pr \in Pairs :
          Cardinality({k \in DOMAIN orig_tuplecount : HasKey(orig_tuplecount[k], pr)}) >= 2

\* the distinct products of basket b in a chunk
ProductsOf(chunk, b) == {chunk[i][2] : i \in {j \in DOMAIN chunk : chunk[j][1] = b}}

\* C5: proc_baskets returns, for every basket of the chunk, exactly the
\* 2-combinations of the basket's distinct products, each once as (e1,e2) with
\* e1 < e2; a basket with fewer than 2 distinct products yields no pair.
C5_PairsOfBasket ==
    pc = "main_count" =>
        /\ DictKeys(basket_out) = {subdata[subdatafile][i][1] : i \in DOMAIN subdata[subdatafile]}
        /\ \A i, j \in DOMAIN basket_out : basket_out[i][1] = basket_out[j][1] => i = j
        /\ \A i \in DOMAIN basket_out :
              LET prods == ProductsOf(subdata[subdatafile], basket_out[i][1])
                  tuples == basket_out[i][2]
              IN  /\ Range(tuples) = {pr \in prods \X prods : pr[1] < pr[2]}
                  /\ \A m, n \in DOMAIN tuples : tuples[m] = tuples[n] => m = n
                  /\ (Cardinality(prods) < 2 => tuples = <<>>)

\* C5 witness: proc_baskets has run on a chunk in which a basket has three
\* distinct products, rows out of order and a repeated row.
C5_Witness ==
    /\ pc = "main_count"
    /\ \E i \in DOMAIN basket_out : Len(basket_out[i][2]) = 3
    /\ \E i, j \in DOMAIN subdata[subdatafile] :
          /\ i < j
          /\ subdata[subdatafile][i][1] = subdata[subdatafile][j][1]
          /\ subdata[subdatafile][i][2] > subdata[subdatafile][j][2]
    /\ \E i, j \in DOMAIN subdata[subdatafile] :
          i < j /\ subdata[subdatafile][i] = subdata[subdatafile][j]

\* C6 as stated: in an execution started without a report, when proc_subdata
\* has completed the report exists, begins with the header and holds it once.
C6_ReportAlwaysExists ==
    (pc = "main_cleanup" /\ run = 1 /\ create_ret = "True")
        => /\ report_isfile
           /\ report # <<>>
           /\ report[1] = Header
           /\ Occurrences(report, Header) = 1

\* C6: in an execution started without a report, the report, once it exists,
\* begins with the header and holds it exactly once; when proc_subdata has
\* completed the report exists if and only if some pair-count file was not empty.
C6_HeaderOnce ==
    run = 1 =>
        /\ report_isfile => (report # <<>> /\ report[1] = Header
                                /\ Occurrences(report, Header) = 1)
        /\ pc = "main_cleanup" =>
              (report_isfile <=> \E k \in DOMAIN orig_tuplecount : orig_tuplecount[k] # <<>>)

\* C6 witness: proc_subdata has completed after appending two primaries, the
\* first with the header and the second without.
C6_Witness ==
    /\ pc = "main_cleanup"
    /\ run = 1
    /\ Cardinality({k \in DOMAIN tuplecount : tuplecount[k] # <<>>}) >= 2
    /\ Len(report) >= 3

\* C7: after the second of two executions on the same input and line_limit the
\* report has the same rows, as a multiset, as after the first.
C7_RerunSameReport ==
    (pc = "done" /\ run = 2 /\ create_ret = "True")
        => \A x \in Range(report) \cup Range(report_run1) :
              Occurrences(report, x) = Occurrences(report_run1, x)

\* C8: when create_subfiles has failed, no later stage runs on the chunk files
\* it left: neither proc_baskets nor count_product_tuples nor proc_subdata.
C8_NoStageAfterFailure ==
    (create_ret = "False" /\ subdata # <<>>)
        => pc \notin {"main_count", "ps_outer", "ps_inner", "main_cleanup", "done"}

\* C9: a comparison with a non-empty secondary leaves in the secondary's file
\* exactly its records whose pair is not in the primary, each unchanged.
C9_SecondaryKeepsUnmatched ==
    [][(pc = "ps_inner" /\ next_idx <= Len(SubdataList)
            /\ tuplecount[SubdataList[next_idx]] # <<>>)
        => tuplecount'[SubdataList[next_idx]] =
              SelectSeq(tuplecount[SubdataList[next_idx]],
                        LAMBDA r : ~HasKey(proc_df, r))]_vars

\* C10: while a primary is compared with the later files, it keeps exactly the
\* pairs of its file, and the count of each is the count in its file plus the
\* count the pair had in every secondary read so far, as it was read.
C10_PrimaryCounts ==
    pc = "ps_inner" =>
        LET orig == tuplecount[SubdataList[proc_pos]]
        IN  /\ Len(proc_df) = Len(orig)
            /\ \A i \in DOMAIN proc_df :
                  /\ SameKey(proc_df[i], orig[i])
                  /\ proc_df[i][3] =
                        orig[i][3]
                        + SumSeq([k \in DOMAIN compared |-> CountOf(compared[k], orig[i])])

\* C10 witness: the primary was compared with two non-empty secondaries; one of
\* its pairs was matched in both and another in none.
C10_Witness ==
    /\ pc = "ps_inner"
    /\ Len(compared) >= 2
    /\ \E i \in DOMAIN proc_df :
          \A k \in DOMAIN compared : HasKey(compared[k], proc_df[i])
    /\ \E i \in DOMAIN proc_df :
          \A k \in DOMAIN compared : ~HasKey(compared[k], proc_df[i])

\* C11: when create_subfiles has returned, every chunk file but the last holds at
\* least line_limit lines, ends where the basket changes, and holds no change of
\* basket at or after its line_limit-th line; an input of one basket with more
\* than line_limit rows gives a single chunk file.
C11_ChunkEndsAtBoundary ==
    (pc = "main_glob" /\ create_ret = "True") =>
        /\ \A k \in DOMAIN subdata :
              (k + 1) \in DOMAIN subdata =>
                  /\ Len(subdata[k]) >= line_limit
                  /\ Len(subdata[k]) >= 1
                  /\ subdata[k][Len(subdata[k])][1] # subdata[k + 1][1][1]
                  /\ \A m \in 1..(Len(subdata[k]) - 1) :
                        m >= line_limit => subdata[k][m][1] = subdata[k][m + 1][1]
        /\ (/\ Len(gzip_file) > line_limit
            /\ \A i \in DOMAIN gzip_file : gzip_file[i][1] = gzip_file[1][1])
              => Cardinality(DOMAIN subdata) = 1

\* ------------------------------- the counting stage on any single chunk file
\* The state in which create_subfiles returns for an input of at most MaxLines
\* lines when line_limit is MaxLines: the whole input is in subdata_001.csv.
InitCount ==
    /\ gzip_file \in SeqsUpTo(Lines, MaxLines)
    /\ line_limit = MaxLines
    /\ pc = "main_glob"
    /\ run = 1
    /\ rd = Len(gzip_file)
    /\ current_line = EOF
    /\ writ_basket = IF gzip_file = <<>> THEN EOF ELSE gzip_file[Len(gzip_file)]
    /\ line_counter = IF gzip_file = <<>> THEN 0 ELSE Len(gzip_file) - 1
    /\ subfile_counter = IF gzip_file = <<>> THEN 1 ELSE 2
    /\ create_ret = "True"
    /\ subdata = IF gzip_file = <<>> THEN <<>> ELSE <<gzip_file>>
    /\ todo = {}
    /\ subdatafile = 0
    /\ basket_out = <<>>
    /\ tuplecount = <<>>
    /\ proc_pos = 1
    /\ next_idx = 1
    /\ proc_df = <<>>
    /\ report_isfile = FALSE
    /\ report = <<>>
    /\ orig_tuplecount = <<>>
    /\ compared = <<>>
    /\ report_run1 = <<>>

NextCount ==
    \/ Main_Glob
    \/ Main_ProcBaskets
    \/ Main_CountProductTuples

SpecCount == InitCount /\ [][NextCount]_vars

\* the baskets of a chunk whose products include both products of pr
BasketsWith(chunk, pr) ==
    {b \in Baskets : pr[1] \in ProductsOf(chunk, b) /\ pr[2] \in ProductsOf(chunk, b)}

\* C12: the pair-count file of a chunk has one row per pair occurring in the
\* chunk, no key twice, and the row's count is the number of baskets of the chunk
\* that hold both products, a repeated product counting once.
C12_PairCountFile ==
    \A k \in DOMAIN tuplecount :
        /\ \A i, j \in DOMAIN tuplecount[k] :
              SameKey(tuplecount[k][i], tuplecount[k][j]) => i = j
        /\ \A i \in DOMAIN tuplecount[k] :
              <<tuplecount[k][i][1], tuplecount[k][i][2]>> \in Pairs
        /\ \A pr \in Pairs :
              /\ HasKey(tuplecount[k], pr) <=> BasketsWith(subdata[k], pr) # {}
              /\ CountOf(tuplecount[k], pr) = Cardinality(BasketsWith(subdata[k], pr))

\* C12 witness: a pair-count file was written for a chunk in which two baskets
\* hold the same pair.
C12_Witness ==
    /\ pc = "main_loop"
    /\ \E k \in DOMAIN tuplecount :
          \E i \in DOMAIN tuplecount[k] : tuplecount[k][i][3] = 2

\* line 198: the for loop takes its next pass whenever one is left
PS_NextPass ==
    /\ pc = "ps_inner"
    /\ next_idx <= Len(SubdataList)
    /\ next_idx' = next_idx + 1

\* proc_subdata runs on its own thread of control: every statement it reaches is
\* executed.  A step that changes next_idx inside the inner loop is a PS_Compare
\* step, so the last conjunct is weak fairness of PS_Compare.
SpecMergeFair ==
    /\ InitMerge
    /\ [][NextMerge]_vars
    /\ WF_vars(PS_SkipEmpty)
    /\ WF_vars(PS_Load)
    /\ WF_next_idx(PS_NextPass)
    /\ WF_vars(PS_Append)
    /\ WF_vars(PS_Return)

\* the keys of the rows of a file, in row order
KeysOf(rows) == [i \in DOMAIN rows |-> <<rows[i][1], rows[i][2]>>]

\* one step of proc_subdata, as C13 describes it
C13_Step ==
    /\ proc_pos' \in {proc_pos, proc_pos + 1}
    /\ (pc = "ps_outer" /\ proc_pos <= Len(SubdataList)
            /\ tuplecount[SubdataList[proc_pos]] = <<>>)
          => (proc_pos' = proc_pos + 1 /\ report' = report
                 /\ report_isfile' = report_isfile)
    /\ report' # report
          => /\ pc = "ps_inner"
             /\ proc_pos' = proc_pos + 1
             /\ proc_df # <<>>
             /\ KeysOf(proc_df) = KeysOf(tuplecount[SubdataList[proc_pos]])
             /\ DataRows(report') = DataRows(report) \o proc_df
    /\ (pc = "ps_inner" /\ proc_pos' = proc_pos + 1) => report' # report
    /\ \A k \in DOMAIN SubdataList :
          k <= proc_pos => tuplecount'[SubdataList[k]] = tuplecount[SubdataList[k]]

\* C13: proc_subdata terminates; the files have their turn as primary in the
\* order of the list, one turn each; a file is appended to the report once, at
\* the end of its turn, if it is not empty when the turn comes and never
\* otherwise; a file whose turn has come is not modified any more, and a primary
\* is compared only with files later in the list.
C13_TurnsAndTermination ==
    /\ [][C13_Step]_vars
    /\ [](pc = "ps_inner" => next_idx > proc_pos)
    /\ [](pc = "main_cleanup" => proc_pos = Len(SubdataList) + 1)
    /\ <>(pc = "main_cleanup")

\* C13 witness: proc_subdata has completed on three files; two were appended to
\* the report and one, emptied as a secondary, was skipped at its turn.
C13_Witness ==
    /\ pc = "main_cleanup"
    /\ Len(SubdataList) = 3
    /\ Cardinality({k \in DOMAIN tuplecount : tuplecount[k] # <<>>}) = 2
    /\ \E k \in DOMAIN tuplecount : tuplecount[k] = <<>> /\ orig_tuplecount[k] # <<>>

\* lines 198-234 as a function: the primary frame df compared in turn with the
\* files j, j+1, ... of the list, an empty file being passed over
RECURSIVE InnerLoop(_, _, _)
InnerLoop(df, files, j) ==
    IF j > Len(files) THEN [proc |-> df, files |-> files]
    ELSE IF files[j] = <<>> THEN InnerLoop(df, files, j + 1)
    ELSE LET res == Compare(df, files[j])
         IN  InnerLoop(res.proc, [files EXCEPT ![j] = res.comp], j + 1)

\* lines 186-239 as a function: the turns of the files i, i+1, ... of the list
RECURSIVE OuterLoop(_, _, _, _)
OuterLoop(files, i, isfile, lines) ==
    IF i > Len(files) THEN [files |-> files, isfile |-> isfile, report |-> lines]
    ELSE IF files[i] = <<>> THEN OuterLoop(files, i + 1, isfile, lines)
    ELSE LET res == InnerLoop(files[i], files, i + 1)
         IN  OuterLoop(res.files, i + 1, TRUE, ToCsv(isfile, lines, res.proc))

\* proc_subdata on a list of files, with no report to begin with
ProcSubdata(files) == OuterLoop(files, 1, FALSE, <<>>)

\* the positions of the files that were not empty when proc_subdata was entered
NonEmptyPositions == SetToSortedSeq({k \in DOMAIN orig_tuplecount : orig_tuplecount[k] # <<>>})

\* C14: a pair-count file that is empty when proc_subdata is entered stays empty
\* and no report row is written for it (as long as only such files have had their
\* turn there is no report); when proc_subdata returns, the report and every other
\* file are what proc_subdata gives on the list without the empty files
C14_EmptyFileSkipped ==
    /\ pc \in {"ps_outer", "ps_inner", "main_cleanup"} =>
          \A k \in DOMAIN orig_tuplecount :
              orig_tuplecount[k] = <<>> => (k \in DOMAIN tuplecount /\ tuplecount[k] = <<>>)
    /\ (pc = "ps_outer" /\ proc_pos > 1
            /\ \A k \in 1..(proc_pos - 1) : orig_tuplecount[SubdataList[k]] = <<>>)
          => (report = <<>> /\ ~report_isfile)
    /\ pc = "main_cleanup" =>
          LET keep  == NonEmptyPositions
              short == [j \in DOMAIN keep |-> orig_tuplecount[keep[j]]]
              res   == ProcSubdata(short)
          IN  /\ report = res.report
              /\ report_isfile = res.isfile
              /\ \A j \in DOMAIN keep : tuplecount[keep[j]] = res.files[j]

\* a run is over in which an empty file stood between two non-empty ones that
\* were both appended to the report
C14_Witness ==
    /\ pc = "main_cleanup"
    /\ Len(orig_tuplecount) = 3
    /\ orig_tuplecount[1] # <<>>
    /\ orig_tuplecount[2] = <<>>
    /\ orig_tuplecount[3] # <<>>
    /\ tuplecount[3] # <<>>
    /\ tuplecount[2] = <<>>
    /\ Len(DataRows(report)) >= 2

\* the rows not yet in the report: the primary frame during its turn, and the
\* files whose turn is still to come
HeldRows ==
    LET later == [k \in DOMAIN SubdataList |->
                     IF k > proc_pos \/ (k = proc_pos /\ pc = "ps_outer")
                     THEN tuplecount[SubdataList[k]] ELSE <<>>]
    IN  (IF pc = "ps_inner" THEN proc_df ELSE <<>>) \o Flatten(later)

\* C15: while proc_subdata runs and when it has returned, for every pair the
\* counts of its report rows plus the counts still held for it in the primary
\* frame and in the files whose turn is to come are at most the sum of the pair's
\* counts over the original files; so is every single report row, and so are the
\* totals over all pairs.
C15_NoDoubleCounting ==
    pc \in {"ps_outer", "ps_inner", "main_cleanup"} =>
        /\ \A pr \in Pairs :
              CountOf(DataRows(report), pr) + CountOf(HeldRows, pr) <= OrigTotal(pr)
        /\ \A i \in DOMAIN report :
              report[i] # Header => report[i][3] <= OrigTotal(report[i])
        /\ CountSum(DataRows(report)) + CountSum(HeldRows)
              <= SumSeq([k \in DOMAIN SubdataList |->
                            CountSum(orig_tuplecount[SubdataList[k]])])

\* a report row holds the counts of two original files
C15_Witness ==
    /\ pc = "main_cleanup"
    /\ \E pr \in Pairs :
          /\ CountOf(DataRows(report), pr) = OrigTotal(pr)
          /\ Cardinality({k \in DOMAIN orig_tuplecount :
                              HasKey(orig_tuplecount[k], pr)}) >= 2

\* the line read from the input and not yet written
PendingLine == IF current_line # EOF THEN <<current_line>> ELSE <<>>

\* C16: while create_subfiles runs, the chunk files in the order of their counter,
\* followed by the pending current line, are the lines read so far, a prefix of
\* the input; when it has returned True the chunk files in the order of their
\* counter are the input, line for line; when it has returned False they are a
\* prefix of the input.
C16_ChunksAreTheInput ==
    /\ pc \in {"cs_outer", "cs_inner", "cs_close"} =>
          /\ rd <= Len(gzip_file)
          /\ Flatten(subdata) \o PendingLine = SubSeq(gzip_file, 1, rd)
    /\ (pc = "main_glob" /\ create_ret = "True") => Flatten(subdata) = gzip_file
    /\ (pc = "main_glob" /\ create_ret = "False") =>
          /\ Len(Flatten(subdata)) <= Len(gzip_file)
          /\ Flatten(subdata) = SubSeq(gzip_file, 1, Len(Flatten(subdata)))

\* create_subfiles has returned True with several chunk files, one of them of
\* several lines
C16_Witness ==
    /\ pc = "main_glob"
    /\ create_ret = "True"
    /\ Len(gzip_file) = MaxLines
    /\ Cardinality(DOMAIN subdata) >= 2
    /\ \E k \in DOMAIN subdata : Len(subdata[k]) >= 2

\* ------------------------------------------------- create_subfiles on its own
NextChunk ==
    \/ CS_Begin
    \/ CS_Outer
    \/ CS_Inner
    \/ CS_Close
    \/ CS_OpenError
    \/ CS_ReadError

\* create_subfiles runs on its own thread of control: as long as it has not
\* returned, it executes its next statement (or an I/O error ends it)
SpecChunk == Init /\ [][NextChunk]_vars /\ WF_vars(NextChunk)

\* every chunk file holds a line, but for the one just opened whose first line is
\* about to be written; there are no more chunk files than lines read
ChunksNonEmpty ==
    /\ \A k \in DOMAIN subdata :
          (pc = "cs_inner" /\ k = subfile_counter) \/ Len(subdata[k]) >= 1
    /\ pc = "cs_inner" => current_line # EOF
    /\ Cardinality(DOMAIN subdata) <= rd

\* C17: create_subfiles returns for every input and every line_limit >= 0; every
\* chunk file it creates holds at least one line, every pass of the outer loop
\* having written one; an empty input creates no chunk file.
C17_TerminatesNoEmptyChunk ==
    /\ <>(pc = "main_glob")
    /\ [](pc \in {"cs_outer", "cs_inner", "cs_close", "main_glob"} => ChunksNonEmpty)
    /\ [](pc = "cs_close" => Len(subdata[subfile_counter]) >= 1)
    /\ [](gzip_file = <<>> => subdata = <<>>)

\* create_subfiles has returned True with line_limit 0 and one chunk file for
\* each of three lines
C17_Witness ==
    /\ pc = "main_glob"
    /\ create_ret = "True"
    /\ line_limit = 0
    /\ Len(gzip_file) = 3
    /\ Cardinality(DOMAIN subdata) = 3

====
